---------------------------- MODULE Spec2Model ----------------------------
(***************************************************************************)
(* A model of img_comp.py: the mask registry (MaskJsonUtils), the          *)
(* generation driver (ImageComposition.main / _generate_images) and the    *)
(* compositor (_compose_images).                                           *)
(*                                                                         *)
(* Three specifications share the module:                                  *)
(*   SpecRegistry  arbitrary add_category / add_mask / get_super_categories*)
(*                 calls on one MaskJsonUtils object;                      *)
(*   Spec          one run of main: argument and directory validation,     *)
(*                 the sample loop, write_masks_to_json, _create_info;     *)
(*                 images are known by their size only;                    *)
(*   SpecCompose   one call of _compose_images on a small canvas, with     *)
(*                 the alpha channel and the mask modelled pixel by pixel. *)
(***************************************************************************)
EXTENDS Integers, Sequences, FiniteSets, TLC

VARIABLES
    \* MaskJsonUtils
    masks,              \* self.masks: image_path -> {mask, color_categories}
    super_categories,   \* self.super_categories: super_category -> set
    ret,                \* what the last call on the registry returned
    \* the caller: of the registry in SpecRegistry, of main in Spec
    call,               \* the last call made and its arguments
    \* ImageComposition.main
    pc,                 \* where the run is
    error,              \* the exception that ended the run, "none" before
    self,               \* count, width, height, output_type once validated
    dirs,               \* the directories that exist under output_dir
    files,              \* the files written under output_dir
    backgrounds,        \* self.backgrounds
    foregrounds_dict,   \* self.foregrounds_dict
    i,                  \* the loop index of _generate_images
    sample,             \* the locals of the current iteration
    json_file,          \* what was written to mascaras.json, write by write
    \* _compose_images, pixel by pixel
    cpc,                \* where the call is
    cforegrounds,       \* its foregrounds argument
    cslot,              \* how many foregrounds have been composited
    composite_mask,     \* the mask image: pixel -> RGB
    paste,              \* size and paste_position of the foreground in turn
    last_over           \* per pixel, the last slot pasted with alpha > 200

regVars == <<masks, super_categories, ret>>
callVars == <<call>>
runVars == <<pc, error, self, dirs, files, backgrounds, foregrounds_dict, i,
             sample, json_file>>
compVars == <<cpc, cforegrounds, cslot, composite_mask, paste, last_over>>
vars == <<regVars, callVars, runVars, compVars>>

(***************************************************************************)
(* Python values.                                                          *)
(***************************************************************************)

\* dict(): a dict is a function from its keys.
EmptyDict == [k \in {} |-> k]

\* d[k] = v on a dict: a new key is added, an old key gets the new value.
DictSet(d, k, v) == [x \in DOMAIN d \cup {k} |-> IF x = k THEN v ELSE d[x]]

\* str(t) of a tuple of three ints, e.g. "(255, 0, 0)".
str(t) ==
    "(" \o ToString(t[1]) \o ", " \o ToString(t[2]) \o ", "
        \o ToString(t[3]) \o ")"

\* list(s) of a set: each element once, in an order the set decides.
Lists(s) ==
    {q \in [1..Cardinality(s) -> s] : {q[n] : n \in DOMAIN q} = s}

(***************************************************************************)
(* MaskJsonUtils                                                           *)
(***************************************************************************)

\* self.super_categories.get(super_category) as a condition: the key is
\* there and its set is not empty.
SuperCategoryTruthy(sc, super_category) ==
    super_category \in DOMAIN sc /\ sc[super_category] # {}

\* self.masks.get(image_path) as a condition: the key is there and its
\* definition is not an empty dict.
MaskTruthy(mk, image_path) ==
    image_path \in DOMAIN mk /\ DOMAIN mk[image_path] # {}

\* add_category with the first branch taken always: a plausible slip.
add_category_overwrite(sc, category, super_category) ==
    [ret |-> TRUE, super_categories |-> DictSet(sc, super_category, {category})]

\* add_category: the value returned and self.super_categories afterwards.
add_category(sc, category, super_category) ==
    IF ~SuperCategoryTruthy(sc, super_category)
    THEN [ret |-> TRUE,
          super_categories |-> DictSet(sc, super_category, {category})]
    ELSE IF category \in sc[super_category]
    THEN [ret |-> FALSE, super_categories |-> sc]
    ELSE [ret |-> TRUE,
          super_categories |->
              DictSet(sc, super_category, sc[super_category] \cup {category})]

\* The loop of add_mask over color_categories.items().
RECURSIVE AddCategories(_, _, _)
AddCategories(sc, color_categories, keys) ==
    IF keys = {} THEN sc
    ELSE LET k == CHOOSE x \in keys : TRUE
             item == color_categories[k]
         IN AddCategories(
                add_category(sc, item.category, item.super_category)
                    .super_categories,
                color_categories, keys \ {k})

\* add_mask without its duplicate test: a plausible slip.
add_mask_replace(mk, sc, image_path, mask_path, color_categories) ==
    [ret |-> TRUE,
     masks |-> DictSet(mk, image_path,
                   [mask |-> mask_path, color_categories |-> color_categories]),
     super_categories |->
         AddCategories(sc, color_categories, DOMAIN color_categories)]

\* add_mask that forgets to store the categories: a plausible slip.
add_mask_no_categories(mk, sc, image_path, mask_path, color_categories) ==
    IF MaskTruthy(mk, image_path)
    THEN [ret |-> FALSE, masks |-> mk, super_categories |-> sc]
    ELSE [ret |-> TRUE,
          masks |-> DictSet(mk, image_path,
                   [mask |-> mask_path, color_categories |-> color_categories]),
          super_categories |-> sc]

\* add_mask: the value returned, self.masks and self.super_categories
\* afterwards.
add_mask(mk, sc, image_path, mask_path, color_categories) ==
    IF MaskTruthy(mk, image_path)
    THEN [ret |-> FALSE, masks |-> mk, super_categories |-> sc]
    ELSE [ret |-> TRUE,
          masks |-> DictSet(mk, image_path,
                   [mask |-> mask_path, color_categories |-> color_categories]),
          super_categories |->
              AddCategories(sc, color_categories, DOMAIN color_categories)]

\* get_super_categories: the dicts it can return.
get_super_categories(sc) ==
    {d \in [DOMAIN sc -> UNION {Lists(sc[s]) : s \in DOMAIN sc}] :
        \A s \in DOMAIN sc : d[s] \in Lists(sc[s])}

\* self.mask_colors
mask_colors == <<<<255, 0, 0>>, <<0, 255, 0>>, <<0, 0, 255>>>>

\* self.max_foregrounds
max_foregrounds == 3


(***************************************************************************)
(* The values the other specifications leave a group of variables at.      *)
(***************************************************************************)

CallIdle == call = [op |-> "none"]

RunIdle ==
    /\ pc = "idle" /\ error = "none" /\ self = EmptyDict /\ dirs = {}
    /\ files = {} /\ backgrounds = <<>> /\ foregrounds_dict = EmptyDict
    /\ i = 0 /\ sample = EmptyDict /\ json_file = <<>>

CompIdle ==
    /\ cpc = "idle" /\ cforegrounds = <<>> /\ cslot = 0
    /\ composite_mask = EmptyDict /\ paste = EmptyDict
    /\ last_over = EmptyDict

(***************************************************************************)
(* SpecRegistry: a caller of one MaskJsonUtils object.                     *)
(***************************************************************************)

\* The arguments the caller draws from.
RegImagePaths == {"images/00000000.jpg", "images/00000001.jpg"}
RegMaskPaths == {"masks/00000000.png", "masks/00000001.png"}
RegItems ==
    {[category |-> "oso", super_category |-> "animal"],
     [category |-> "caballo", super_category |-> "animal"],
     [category |-> "oso", super_category |-> "juguete"]}
RegColorKeys ==
    {{}, {str(mask_colors[1])}, {str(mask_colors[1]), str(mask_colors[2])}}
RegColorCategories == UNION {[keys -> RegItems] : keys \in RegColorKeys}

\* MaskJsonUtils.__init__
InitRegistry ==
    /\ masks = EmptyDict
    /\ super_categories = EmptyDict
    /\ ret = "None"

CallAddCategory ==
    /\ pc = "idle"
    /\ \E item \in RegItems :
        LET r == add_category(super_categories, item.category,
                              item.super_category)
        IN /\ super_categories' = r.super_categories
           /\ ret' = r.ret
           /\ call' = [op |-> "add_category", category |-> item.category,
                       super_category |-> item.super_category]
           /\ UNCHANGED masks

CallAddMask ==
    /\ pc = "idle"
    /\ \E image_path \in RegImagePaths, mask_path \in RegMaskPaths,
          color_categories \in RegColorCategories :
        LET r == add_mask(masks, super_categories, image_path, mask_path,
                          color_categories)
        IN /\ masks' = r.masks
           /\ super_categories' = r.super_categories
           /\ ret' = r.ret
           /\ call' = [op |-> "add_mask", image_path |-> image_path,
                       mask_path |-> mask_path,
                       color_categories |-> color_categories]

CallGetSuperCategories ==
    /\ pc = "idle"
    /\ ret' \in get_super_categories(super_categories)
    /\ call' = [op |-> "get_super_categories"]
    /\ UNCHANGED <<masks, super_categories>>

InitReg == InitRegistry /\ CallIdle /\ RunIdle /\ CompIdle

NextReg ==
    \/ CallAddCategory /\ UNCHANGED <<runVars, compVars>>
    \/ CallAddMask /\ UNCHANGED <<runVars, compVars>>
    \/ CallGetSuperCategories /\ UNCHANGED <<runVars, compVars>>

SpecRegistry == InitReg /\ [][NextReg]_vars

(***************************************************************************)
(* ImageComposition: the run of main.                                      *)
(***************************************************************************)

\* self.allowed_output_types
allowed_output_types == {".png", ".jpg", ".jpeg"}

\* self.allowed_background_types
allowed_background_types == {".png", ".jpg", ".jpeg"}

\* self.zero_padding
zero_padding == 8

\* The least width and height _validate_and_process_args accepts.
MinSize == 64

\* The largest count an argument list of the model asks for.
MaxCount == 2

\* args.output_dir, as the parts of a Path.
output_dir == <<"salida">>

\* Path / name
PathJoin(path, name) == Append(path, name)

\* Path.relative_to(base), for a path under base.
relative_to(path, base) == SubSeq(path, Len(base) + 1, Len(path))

\* Path.as_posix()
RECURSIVE as_posix(_)
as_posix(path) ==
    IF Len(path) = 0 THEN "."
    ELSE IF Len(path) = 1 THEN path[1]
    ELSE path[1] \o "/" \o as_posix(Tail(path))

\* f'{n:0{width}}': the decimal digits of n, zeros in front up to width.
RECURSIVE ZeroFill(_, _)
ZeroFill(digits, width) ==
    IF Len(digits) >= width THEN digits ELSE ZeroFill("0" \o digits, width)

\* save_filename of sample n
save_filename(n) == ZeroFill(ToString(n), zero_padding)

\* composite_path of sample n: under 'images'.
composite_path(n, output_type) ==
    PathJoin(PathJoin(output_dir, "images"), save_filename(n) \o output_type)

\* mask_path of sample n: under 'masks', always .png.
mask_path_of(n) ==
    PathJoin(PathJoin(output_dir, "masks"), save_filename(n) \o ".png")

\* Image.save(path): the directory of the path has to exist.
CanSave(path, existing) == relative_to(path, output_dir)[1] \in existing

\* --- what the run reads from its environment --------------------------

\* args.output_type: None, or a string with or without a leading dot.
ArgNone == [none |-> TRUE]
ArgOutputTypes ==
    {ArgNone} \cup [dot : BOOLEAN, name : {"png", "jpg", "jpeg", "bmp"}]

\* What foregrounds_dir can hold, entry by entry in iterdir order.
FgFile(super_category, category, name, suffix, transparent) ==
    [where |-> "image", super_category |-> super_category,
     category |-> category, name |-> name, suffix |-> suffix,
     is_file |-> TRUE, transparent |-> transparent]
oso1 == FgFile("animal", "oso", "oso1.png", ".png", TRUE)
peluche == FgFile("juguete", "oso", "peluche.png", ".png", TRUE)
opaco == FgFile("animal", "oso", "opaco.png", ".png", FALSE)
foto == FgFile("animal", "oso", "foto.jpg", ".jpg", TRUE)
subdir == [oso1 EXCEPT !.name = "viejos", !.is_file = FALSE]
suelto == [where |-> "super_category", name |-> "leeme.txt"]
FgListings ==
    {<<suelto, oso1, peluche>>, <<oso1, foto, opaco>>, <<oso1, subdir>>,
     <<foto>>}

\* What backgrounds_dir can hold: the files and the size of each image.
BgFile(name, suffix, size) ==
    [name |-> name, suffix |-> suffix, is_file |-> TRUE, size |-> size]
justo == BgFile("justo.png", ".png", <<MinSize, MinSize>>)
grande == BgFile("grande.jpg", ".jpg", <<MinSize + 1, MinSize + 1>>)
angosto == BgFile("angosto.jpg", ".jpg", <<MinSize - 1, MinSize>>)
bajo == BgFile("bajo.jpeg", ".jpeg", <<MinSize, MinSize - 1>>)
notas == BgFile("notas.txt", ".txt", <<0, 0>>)
carpeta == [justo EXCEPT !.name = "otros", !.is_file = FALSE]
BgListings ==
    {<<carpeta, justo, notas>>, <<grande, angosto>>, <<bajo>>, <<notas>>}

\* --- the steps of the run -----------------------------------------------

Fail(e) == pc' = "failed" /\ error' = e

\* _validate_and_process_args up to its output_type assertion (116-136).
ValidateArgs ==
    /\ pc = "args"
    /\ \E silent \in BOOLEAN, count \in 0..MaxCount,
          width \in {MinSize - 1, MinSize}, height \in {MinSize - 1, MinSize},
          output_type \in ArgOutputTypes :
        LET args == [silent |-> silent, count |-> count, width |-> width,
                     height |-> height, output_type |-> output_type]
            s1 == DictSet(self, "silent", silent)
            s2 == DictSet(s1, "count", count)
            s3 == DictSet(s2, "width", width)
            s4 == DictSet(s3, "height", height)
            s5 == IF output_type = ArgNone
                  THEN DictSet(s4, "output_type", ".jpg")
                  ELSE IF ~output_type.dot
                  THEN DictSet(s4, "output_type", "." \o output_type.name)
                  ELSE s4
        IN /\ call' = [op |-> "main", args |-> args]
           /\ IF ~(count > 0)
              THEN Fail("AssertionError: count") /\ self' = s1
              ELSE IF ~(width >= MinSize)
              THEN Fail("AssertionError: width") /\ self' = s2
              ELSE IF ~(height >= MinSize)
              THEN Fail("AssertionError: height") /\ self' = s3
              ELSE IF output_type # ArgNone /\ "output_type" \notin DOMAIN s5
              THEN Fail("AttributeError: output_type") /\ self' = s5
              ELSE IF output_type # ArgNone
                      /\ s5.output_type \notin allowed_output_types
              THEN Fail("AssertionError: output_type") /\ self' = s5
              ELSE pc' = "output_dir" /\ self' = s5 /\ UNCHANGED error
    /\ UNCHANGED <<dirs, files, backgrounds, foregrounds_dict, i, sample,
                   json_file, regVars>>

\* _validate_and_process_output_directory (142-159).
ValidateOutputDirectory ==
    /\ pc = "output_dir"
    /\ dirs' = dirs \cup {"imágenes", "máscaras"}
    /\ \E not_empty \in BOOLEAN, should_continue \in {"y", "yes", "n"} :
          IF ~self.silent /\ not_empty /\ should_continue \notin {"y", "yes"}
          THEN pc' = "quit"
          ELSE pc' = "input_dir"
    /\ UNCHANGED <<error, self, files, backgrounds, foregrounds_dict, i,
                   sample, json_file, regVars>>

\* The loop of _validate_and_process_foregrounds (187-217).
RECURSIVE BuildForegrounds(_, _)
BuildForegrounds(listing, d) ==
    IF listing = <<>> THEN d
    ELSE LET e == Head(listing)
             sc == e.super_category
             c == e.category
             d1 == IF sc \in DOMAIN d THEN d ELSE DictSet(d, sc, EmptyDict)
             d2 == IF c \in DOMAIN d1[sc] THEN d1
                   ELSE DictSet(d1, sc, DictSet(d1[sc], c, <<>>))
             d3 == DictSet(d2, sc, DictSet(d2[sc], c,
                       Append(d2[sc][c],
                              [name |-> e.name, transparent |-> e.transparent])))
         IN IF e.where # "image" \/ ~e.is_file \/ e.suffix # ".png"
            THEN BuildForegrounds(Tail(listing), d)
            ELSE BuildForegrounds(Tail(listing), d3)

\* The loop of _validate_and_process_backgrounds (222-233).
BuildBackgrounds(listing) ==
    SelectSeq(listing, LAMBDA e :
        e.is_file /\ e.suffix \in allowed_background_types)

\* _validate_and_process_input_directory (161-235).
ValidateInputDirectory ==
    /\ pc = "input_dir"
    /\ \E exists \in BOOLEAN, has_foregrounds \in BOOLEAN,
          has_backgrounds \in BOOLEAN, fl \in FgListings, bl \in BgListings :
        LET fd == BuildForegrounds(fl, EmptyDict)
            bs == BuildBackgrounds(bl)
        IN IF ~exists
           THEN Fail("AssertionError: input_dir")
                /\ UNCHANGED <<foregrounds_dict, backgrounds>>
           ELSE IF ~has_foregrounds \/ ~has_backgrounds
           THEN Fail("AttributeError: foregrounds_dir or backgrounds_dir")
                /\ UNCHANGED <<foregrounds_dict, backgrounds>>
           ELSE IF ~(Cardinality(DOMAIN fd) > 0)
           THEN Fail("AssertionError: foregrounds")
                /\ foregrounds_dict' = fd /\ UNCHANGED backgrounds
           ELSE IF ~(Len(bs) > 0)
           THEN Fail("AssertionError: backgrounds")
                /\ foregrounds_dict' = fd /\ backgrounds' = bs
           ELSE /\ pc' = "loop" /\ UNCHANGED error
                /\ foregrounds_dict' = fd /\ backgrounds' = bs
    /\ UNCHANGED <<self, dirs, files, i, sample, json_file, regVars>>

\* Every foreground the random choices of lines 254-256 can pick.
Assets(fd) ==
    UNION {UNION {{[super_category |-> sc, category |-> c,
                    foreground_path |-> fd[sc][c][j]] :
                      j \in 1..Len(fd[sc][c])} :
                  c \in DOMAIN fd[sc]} :
           sc \in DOMAIN fd}

\* The color of every slot is the first palette color: a plausible slip.
slot_color_first(fg_i) == mask_colors[1]

\* self.mask_colors[fg_i] for the 0-based slot fg_i (line 259).
slot_color(fg_i) == mask_colors[fg_i + 1]

\* The foregrounds list built by the loop of lines 252-266 from its picks.
foregrounds_of(picks) ==
    [n \in DOMAIN picks |->
        [super_category |-> picks[n].super_category,
         category |-> picks[n].category,
         foreground_path |-> picks[n].foreground_path,
         mask_rgb_color |-> slot_color(n - 1)]]

\* Lines 246-266: the next index, a background, the foregrounds.
ChooseSample ==
    /\ pc = "loop"
    /\ i < self.count
    /\ \E b \in 1..Len(backgrounds), num_foregrounds \in 1..max_foregrounds :
        \E picks \in [1..num_foregrounds -> Assets(foregrounds_dict)] :
            sample' = [background_path |-> backgrounds[b],
                       foregrounds |-> foregrounds_of(picks)]
    /\ pc' = "compose"
    /\ UNCHANGED <<error, self, dirs, files, backgrounds, foregrounds_dict,
                   i, json_file, regVars>>

\* The crop assertions with the height left out: a plausible slip.
BackgroundFitsWidth(size, width, height) == size[1] - width >= 0

\* The two assertions on max_crop_x_pos and max_crop_y_pos (312-315).
BackgroundFits(size, width, height) ==
    size[1] - width >= 0 /\ size[2] - height >= 0

\* _compose_images with the images known by their size only (304-358):
\* the crop assertions, then foreground by foreground the transparency
\* assertion of _transform_foreground (364) and the assertion that the
\* transformed foreground fits (330); n is the first foreground that fails
\* one, past the end when none does.
ComposeImages ==
    /\ pc = "compose"
    /\ LET fgs == sample.foregrounds
           bg == sample.background_path
       IN IF ~BackgroundFits(bg.size, self.width, self.height)
          THEN Fail("AssertionError: background")
          ELSE \E n \in 1..(Len(fgs) + 1) :
                 /\ \A m \in 1..(n - 1) : fgs[m].foreground_path.transparent
                 /\ IF n > Len(fgs)
                    THEN pc' = "save_composite" /\ UNCHANGED error
                    ELSE IF ~fgs[n].foreground_path.transparent
                    THEN Fail("AssertionError: transparency")
                    ELSE Fail("AssertionError: foreground size")
    /\ UNCHANGED <<self, dirs, files, backgrounds, foregrounds_dict, i,
                   sample, json_file, regVars>>

\* Lines 271-277: composite.save(composite_path).
SaveComposite ==
    /\ pc = "save_composite"
    /\ LET path == composite_path(i, self.output_type)
       IN IF CanSave(path, dirs)
          THEN /\ files' = files \cup {as_posix(relative_to(path, output_dir))}
               /\ pc' = "save_mask" /\ UNCHANGED error
          ELSE Fail("FileNotFoundError: composite") /\ UNCHANGED files
    /\ UNCHANGED <<self, dirs, backgrounds, foregrounds_dict, i, sample,
                   json_file, regVars>>

\* Lines 280-282: mask.save(mask_path).
SaveMask ==
    /\ pc = "save_mask"
    /\ LET path == mask_path_of(i)
       IN IF CanSave(path, dirs)
          THEN /\ files' = files \cup {as_posix(relative_to(path, output_dir))}
               /\ pc' = "register" /\ UNCHANGED error
          ELSE Fail("FileNotFoundError: mask") /\ UNCHANGED files
    /\ UNCHANGED <<self, dirs, backgrounds, foregrounds_dict, i, sample,
                   json_file, regVars>>

\* color_categories after the loop of lines 284-292.
RECURSIVE color_categories_of(_, _)
color_categories_of(fgs, d) ==
    IF fgs = <<>> THEN d
    ELSE color_categories_of(Tail(fgs),
             DictSet(d, str(Head(fgs).mask_rgb_color),
                     [category |-> Head(fgs).category,
                      super_category |-> Head(fgs).super_category]))

\* self.super_categories of mju after the add_category calls of line 287.
RECURSIVE categories_of(_, _)
categories_of(fgs, sc) ==
    IF fgs = <<>> THEN sc
    ELSE categories_of(Tail(fgs),
             add_category(sc, Head(fgs).category, Head(fgs).super_category)
                 .super_categories)

\* Lines 284-299: the categories, color_categories and add_mask; then the
\* loop goes on to the next index.
RegisterSample ==
    /\ pc = "register"
    /\ LET r == add_mask(
                 masks, categories_of(sample.foregrounds, super_categories),
                 as_posix(relative_to(composite_path(i, self.output_type),
                                      output_dir)),
                 as_posix(relative_to(mask_path_of(i), output_dir)),
                 color_categories_of(sample.foregrounds, EmptyDict))
       IN /\ masks' = r.masks
          /\ super_categories' = r.super_categories
          /\ ret' = r.ret
    /\ i' = i + 1
    /\ sample' = EmptyDict
    /\ pc' = "loop"
    /\ UNCHANGED <<error, self, dirs, files, backgrounds, foregrounds_dict,
                   json_file>>

\* Line 302 indented into the loop, so that the index is written after
\* every sample: a plausible slip.
WriteMasksToJsonInLoop ==
    /\ pc = "loop"
    /\ Len(json_file) < i
    /\ \E serializable_super_cats \in get_super_categories(super_categories) :
          json_file' = Append(json_file,
              [masks |-> masks, super_categories |-> serializable_super_cats])
    /\ files' = files \cup {"mascaras.json"}
    /\ pc' = IF i < self.count THEN "loop" ELSE "create_info"
    /\ UNCHANGED <<error, self, dirs, backgrounds, foregrounds_dict, i,
                   sample, regVars>>

\* Line 302 and write_masks_to_json (89-101), once the loop is over.
WriteMasksToJson ==
    /\ pc = "loop"
    /\ ~(i < self.count)
    /\ \E serializable_super_cats \in get_super_categories(super_categories) :
          json_file' = Append(json_file,
              [masks |-> masks, super_categories |-> serializable_super_cats])
    /\ files' = files \cup {"mascaras.json"}
    /\ pc' = "create_info"
    /\ UNCHANGED <<error, self, dirs, backgrounds, foregrounds_dict, i,
                   sample, regVars>>

\* _create_info (385-425) and the end of main.
CreateInfo ==
    /\ pc = "create_info"
    /\ \E should_continue \in {"y", "yes", "n"} :
          IF self.silent
          THEN pc' = "done" /\ UNCHANGED files
          ELSE IF should_continue \notin {"y", "yes"}
          THEN pc' = "quit" /\ UNCHANGED files
          ELSE pc' = "done" /\ files' = files \cup {"dataset_info.json"}
    /\ UNCHANGED <<error, self, dirs, backgrounds, foregrounds_dict, i,
                   sample, json_file, regVars>>

\* The state main starts in: nothing validated yet, an output directory
\* that may hold 'images' and 'masks' from before, an empty registry.
InitRun ==
    /\ pc = "args" /\ error = "none" /\ self = EmptyDict
    /\ dirs \in SUBSET {"images", "masks"}
    /\ files = {} /\ backgrounds = <<>> /\ foregrounds_dict = EmptyDict
    /\ i = 0 /\ sample = EmptyDict /\ json_file = <<>>
    /\ InitRegistry

Init == InitRun /\ CallIdle /\ CompIdle

Next ==
    \/ ValidateArgs /\ UNCHANGED compVars
    \/ ValidateOutputDirectory /\ UNCHANGED <<callVars, compVars>>
    \/ ValidateInputDirectory /\ UNCHANGED <<callVars, compVars>>
    \/ ChooseSample /\ UNCHANGED <<callVars, compVars>>
    \/ ComposeImages /\ UNCHANGED <<callVars, compVars>>
    \/ SaveComposite /\ UNCHANGED <<callVars, compVars>>
    \/ SaveMask /\ UNCHANGED <<callVars, compVars>>
    \/ RegisterSample /\ UNCHANGED <<callVars, compVars>>
    \/ WriteMasksToJson /\ UNCHANGED <<callVars, compVars>>
    \/ CreateInfo /\ UNCHANGED <<callVars, compVars>>

Spec == Init /\ [][Next]_vars

\* Either a caller of a registry or a run of main.
SpecRegistryOrRun == (InitReg \/ Init) /\ [][NextReg \/ Next]_vars

(***************************************************************************)
(* SpecCompose: _compose_images pixel by pixel.  The canvas is a few       *)
(* pixels wide; the colors of the composite are left out, since neither    *)
(* the mask nor an assertion reads them.                                   *)
(***************************************************************************)

\* The canvas is CanvasSide + 1 pixels wide and CanvasSide pixels high.
CanvasSide == 1

\* composite.size: (self.width, self.height) after the crop.
canvas_size == <<CanvasSide + 1, CanvasSide>>

\* The pixels of an image of the given size, as (x, y).
PixelsOf(size) == (0..(size[1] - 1)) \X (0..(size[2] - 1))

\* alpha_threshold
alpha_threshold == 200

\* The alpha values a transformed foreground is drawn from: transparent,
\* the threshold itself, the first value above it.
AlphaValues == {0, alpha_threshold, alpha_threshold + 1}

\* The sizes of a transformed foreground: up to one past the canvas.
FgSizes == (1..(canvas_size[1] + 1)) \X (1..(canvas_size[2] + 1))

\* The sizes of a background: from one short of the canvas to one past it.
BgSizes ==
    ((canvas_size[1] - 1)..(canvas_size[1] + 1))
        \X ((canvas_size[2] - 1)..(canvas_size[2] + 1))

\* max_x_position and max_y_position (328-329).
max_position(size, fg_size) == <<size[1] - fg_size[1], size[2] - fg_size[2]>>

\* The assertion of line 330.
Fits(max_pos) == max_pos[1] >= 0 /\ max_pos[2] >= 0

\* The offsets of randint(0, max + 1): a plausible slip.
PastePositionsPastEnd(max_pos) == (0..(max_pos[1] + 1)) \X (0..(max_pos[2] + 1))

\* The values of paste_position (332): randint includes both ends.
PastePositions(max_pos) == (0..max_pos[1]) \X (0..max_pos[2])

\* The images below are computed pixel by pixel: numpy's and Pillow's
\* operations on them work on each pixel alone.

\* new_alpha_mask at pixel p: Image.new('L', size, 0) with the alpha
\* channel of the foreground pasted at position (340-341).
new_alpha_mask(alpha, fg_size, position, p) ==
    IF /\ p[1] >= position[1] /\ p[1] < position[1] + fg_size[1]
       /\ p[2] >= position[2] /\ p[2] < position[2] + fg_size[2]
    THEN alpha[<<p[1] - position[1], p[2] - position[2]>>]
    ELSE 0

\* np.greater_equal in place of np.greater: a plausible slip.
uint8_mask_ge(new_alpha) == IF new_alpha >= alpha_threshold THEN 1 ELSE 0

\* mask_arr and uint8_mask at a pixel (345-346): one or zero.
uint8_mask(new_alpha) == IF new_alpha > alpha_threshold THEN 1 ELSE 0

\* uint8 arithmetic
Uint8(n) == n % 256

\* isolated_mask at a pixel (349-353)
isolated_mask(mask, mask_rgb_color) ==
    <<Uint8(mask * mask_rgb_color[1]), Uint8(mask * mask_rgb_color[2]),
      Uint8(mask * mask_rgb_color[3])>>

\* The mask of ones and zeros used as it is: a plausible slip.
isolated_alpha_ones(mask) == mask

\* isolated_alpha at a pixel (354)
isolated_alpha(mask) == Uint8(mask * 255)

\* Pillow's rounded a * b / 255 on 8-bit values.
MulDiv255(a, b) ==
    LET tmp == a * b + 128 IN ((tmp \div 256) + tmp) \div 256

\* Image.composite(image1, image2, mask) at a pixel, on RGB images with an
\* L mask (356): image1 where the mask is 255, image2 where it is 0, a
\* blend between.
ImageComposite(pixel1, pixel2, mask) ==
    [c \in 1..3 |->
        MulDiv255(pixel2[c], 255 - mask) + MulDiv255(pixel1[c], mask)]

\* The foregrounds argument: the list _generate_images builds for
\* num_foregrounds picks of one asset.
ComposeArguments ==
    {foregrounds_of([n \in 1..num_foregrounds |->
                        [super_category |-> oso1.super_category,
                         category |-> oso1.category,
                         foreground_path |-> [name |-> oso1.name]]]) :
        num_foregrounds \in 1..max_foregrounds}

\* The call, before its first line.
InitCompose ==
    /\ cpc = "call"
    /\ cforegrounds \in ComposeArguments
    /\ cslot = 0
    /\ composite_mask = EmptyDict
    /\ paste = EmptyDict
    /\ last_over = EmptyDict

\* Lines 306-319: the crop of the background and the empty mask.
ComposeCrop ==
    /\ cpc = "call"
    /\ \E bg_size \in BgSizes :
          IF ~BackgroundFits(bg_size, canvas_size[1], canvas_size[2])
          THEN cpc' = "failed_background"
               /\ UNCHANGED <<composite_mask, last_over>>
          ELSE /\ \E crop_pos \in PastePositions(max_position(bg_size,
                                                              canvas_size)) :
                     TRUE
               /\ cpc' = "loop"
               /\ composite_mask' = [p \in PixelsOf(canvas_size) |-> <<0, 0, 0>>]
               /\ last_over' = [p \in PixelsOf(canvas_size) |-> 0]
    /\ UNCHANGED <<cforegrounds, cslot, paste>>

\* Lines 322-332 of a turn of the loop: the next foreground is
\* transformed, it has to fit, paste_position is drawn.
PlaceForeground ==
    /\ cpc = "loop"
    /\ cslot < Len(cforegrounds)
    /\ \E transparent \in BOOLEAN, fg_size \in FgSizes :
        LET max_pos == max_position(canvas_size, fg_size)
        IN IF ~transparent
           THEN cpc' = "failed_transparency" /\ UNCHANGED paste
           ELSE IF ~Fits(max_pos)
           THEN cpc' = "failed_size" /\ paste' = [size |-> fg_size]
           ELSE \E paste_position \in PastePositions(max_pos) :
                  /\ paste' = [size |-> fg_size, position |-> paste_position]
                  /\ cpc' = "paste"
    /\ UNCHANGED <<cforegrounds, cslot, composite_mask, last_over>>

\* Lines 334-356 of the turn: the alpha channel of the transformed
\* foreground is pasted at paste_position and the mask is composited.
CompositeForeground ==
    /\ cpc = "paste"
    /\ \E alpha \in [PixelsOf(paste.size) -> AlphaValues] :
        LET fg == cforegrounds[cslot + 1]
            padded == [p \in PixelsOf(canvas_size) |->
                          new_alpha_mask(alpha, paste.size, paste.position, p)]
        IN /\ composite_mask' =
                  [p \in PixelsOf(canvas_size) |->
                      LET ones == uint8_mask(padded[p])
                      IN ImageComposite(
                             isolated_mask(ones, fg.mask_rgb_color),
                             composite_mask[p], isolated_alpha(ones))]
           /\ last_over' =
                  [p \in PixelsOf(canvas_size) |->
                      IF padded[p] > 200 THEN cslot + 1 ELSE last_over[p]]
    /\ cslot' = cslot + 1
    /\ paste' = EmptyDict
    /\ cpc' = "loop"
    /\ UNCHANGED cforegrounds

\* Line 358: the loop is over, composite and composite_mask are returned.
ComposeReturn ==
    /\ cpc = "loop"
    /\ ~(cslot < Len(cforegrounds))
    /\ cpc' = "returned"
    /\ UNCHANGED <<cforegrounds, cslot, composite_mask, paste, last_over>>

InitComp == InitCompose /\ InitRegistry /\ CallIdle /\ RunIdle

NextComp ==
    \/ ComposeCrop /\ UNCHANGED <<regVars, callVars, runVars>>
    \/ PlaceForeground /\ UNCHANGED <<regVars, callVars, runVars>>
    \/ CompositeForeground /\ UNCHANGED <<regVars, callVars, runVars>>
    \/ ComposeReturn /\ UNCHANGED <<regVars, callVars, runVars>>

SpecCompose == InitComp /\ [][NextComp]_vars

(***************************************************************************)
(* The claims.                                                             *)
(***************************************************************************)

\* The (super_category, category) pairs of a taxonomy.
PairsOf(sc) == UNION {{<<s, c>> : c \in sc[s]} : s \in DOMAIN sc}

\* The (super_category, category) pairs of a color_categories dict.
ItemPairs(color_categories) ==
    {<<color_categories[k].super_category, color_categories[k].category>> :
        k \in DOMAIN color_categories}

\* The mask of _compose_images exists: after the crop, until the return.
MaskExists == cpc \in {"loop", "paste", "returned"}

\* C1: in _compose_images, after each foreground and in the returned mask,
\* every pixel of the mask is (0,0,0) or one of the palette colors of the
\* slots of the sample, the colors that are the keys of the sample's
\* color_categories; never a blend, never the color of a slot not used.
C1_MaskPixelsAreBlackOrSlotColors ==
    MaskExists =>
        LET keys == DOMAIN color_categories_of(cforegrounds, EmptyDict)
        IN \A p \in PixelsOf(canvas_size) :
               \/ composite_mask[p] = <<0, 0, 0>>
               \/ /\ \E n \in 1..Len(cforegrounds) :
                         composite_mask[p] = mask_colors[n]
                  /\ str(composite_mask[p]) \in keys

\* C1's case: a mask returned for three foregrounds that shows the colors
\* of two of the slots.
C1_Witness ==
    /\ cpc = "returned"
    /\ Len(cforegrounds) = 3
    /\ \E p, q \in PixelsOf(canvas_size) :
          /\ composite_mask[p] = mask_colors[1]
          /\ composite_mask[q] = mask_colors[3]

\* C2: a pixel is occupied by a slot iff the slot's pasted alpha there is
\* above 200; the mask color of a pixel is the palette color of the last
\* slot composited that occupies it, (0,0,0) when no slot does.
C2_LastOccupyingSlotWins ==
    MaskExists =>
        \A p \in PixelsOf(canvas_size) :
            composite_mask[p] =
                IF last_over[p] = 0 THEN <<0, 0, 0>>
                ELSE mask_colors[last_over[p]]

\* C2's case: three slots composited; at one pixel slot 2 went over slot 1
\* and stayed, slot 3 not occupying it; at another slot 3 is on top.
C2_Witness ==
    /\ cpc = "returned"
    /\ cslot = 3
    /\ \E p, q \in PixelsOf(canvas_size) :
          /\ last_over[p] = 2 /\ composite_mask[p] = mask_colors[2]
          /\ last_over[q] = 3 /\ composite_mask[q] = mask_colors[3]

\* C9: the paste offset (x, y) of a transformed foreground of size (w, h)
\* on a canvas (W, H) has 0 <= x <= W - w and 0 <= y <= H - h; a foreground
\* as large as the canvas is placed, at 0; a larger one is rejected and
\* nothing is pasted.
C9_PasteInsideCanvas ==
    /\ cpc = "paste" =>
          /\ 0 <= paste.position[1]
          /\ paste.position[1] <= canvas_size[1] - paste.size[1]
          /\ 0 <= paste.position[2]
          /\ paste.position[2] <= canvas_size[2] - paste.size[2]
          /\ (paste.size[1] = canvas_size[1] => paste.position[1] = 0)
          /\ (paste.size[2] = canvas_size[2] => paste.position[2] = 0)
    /\ cpc = "failed_size" =>
          \/ paste.size[1] > canvas_size[1]
          \/ paste.size[2] > canvas_size[2]

\* C9's case: a foreground exactly as large as the canvas is placed.
C9_Witness ==
    /\ cpc = "paste"
    /\ paste.size = canvas_size
    /\ paste.position = <<0, 0>>

\* C3: add_mask with an image_path already registered returns False and
\* leaves masks and super_categories as they were.
C3_DuplicateAddMaskChangesNothing ==
    [][(call'.op = "add_mask" /\ call'.image_path \in DOMAIN masks) =>
          /\ ret' = FALSE
          /\ masks' = masks
          /\ super_categories' = super_categories]_vars

\* C3's case: a rejected add_mask whose mask path differs from the stored
\* one and whose color_categories names a pair the taxonomy does not have.
C3_Witness ==
    /\ call.op = "add_mask"
    /\ ret = FALSE
    /\ masks[call.image_path].mask # call.mask_path
    /\ masks[call.image_path].color_categories # call.color_categories
    /\ ~(ItemPairs(call.color_categories) \subseteq PairsOf(super_categories))

\* C4: add_category of a pair already there returns False and changes
\* nothing; of a new pair returns True and adds that pair alone, also when
\* the category is known under another super-category;
\* get_super_categories lists each category of a super-category once.
C4_AddCategoryHasSetSemantics ==
    [][/\ call'.op = "add_category" =>
            LET pair == <<call'.super_category, call'.category>>
            IN IF pair \in PairsOf(super_categories)
               THEN ret' = FALSE /\ super_categories' = super_categories
               ELSE /\ ret' = TRUE
                    /\ PairsOf(super_categories')
                           = PairsOf(super_categories) \cup {pair}
                    /\ \A s \in DOMAIN super_categories' :
                           super_categories'[s] # {}
       /\ call'.op = "get_super_categories" =>
            /\ DOMAIN ret' = DOMAIN super_categories
            /\ \A s \in DOMAIN ret' :
                  /\ Len(ret'[s]) = Cardinality(super_categories[s])
                  /\ \A c \in super_categories[s] :
                        Cardinality({n \in 1..Len(ret'[s]) : ret'[s][n] = c}) = 1
      ]_vars

\* C4's case: (oso, animal) added again after (caballo, animal), with oso
\* also a member of juguete.
C4_Witness ==
    /\ call = [op |-> "add_category", category |-> "oso",
               super_category |-> "animal"]
    /\ ret = FALSE
    /\ DOMAIN super_categories = {"animal", "juguete"}
    /\ super_categories["animal"] = {"oso", "caballo"}
    /\ super_categories["juguete"] = {"oso"}

\* The relative path of the composite of sample n, and of its mask.
CompositeFile(n) ==
    as_posix(relative_to(composite_path(n, self.output_type), output_dir))
MaskFile(n) == as_posix(relative_to(mask_path_of(n), output_dir))

\* The run holds a sample: chosen, not yet registered.
HasSample == pc \in {"compose", "save_composite", "save_mask", "register"}

\* C5: slot i of a sample gets mask_colors[i], and the color_categories
\* registered for the sample has as many keys as the sample has slots,
\* between 1 and max_foregrounds, whatever the slots drew.
C5_OneKeyPerSlot ==
    [][/\ HasSample =>
            /\ Len(sample.foregrounds) \in 1..max_foregrounds
            /\ \A n \in 1..Len(sample.foregrounds) :
                   sample.foregrounds[n].mask_rgb_color = mask_colors[n]
       /\ (pc = "register" /\ pc' = "loop") =>
            /\ CompositeFile(i) \in DOMAIN masks'
            /\ LET cc == masks'[CompositeFile(i)].color_categories
               IN /\ Cardinality(DOMAIN cc) = Len(sample.foregrounds)
                  /\ DOMAIN cc = {str(mask_colors[n]) :
                                     n \in 1..Len(sample.foregrounds)}
                  /\ \A n \in 1..Len(sample.foregrounds) :
                         cc[str(mask_colors[n])] =
                             [category |-> sample.foregrounds[n].category,
                              super_category |->
                                  sample.foregrounds[n].super_category]
      ]_vars

\* C5's case: a registered sample of three slots that all drew the same
\* category.
C5_Witness ==
    \E p \in DOMAIN masks :
        LET cc == masks[p].color_categories
        IN /\ Cardinality(DOMAIN cc) = 3
           /\ Cardinality(ItemPairs(cc)) = 1

\* The output directory holds what _validate_and_process_output_directory
\* made and nothing else.
OwnLayout == dirs \subseteq {"imágenes", "máscaras"}

\* The errors raised for an invalid argument or asset.
InputErrors ==
    {"AssertionError: count", "AssertionError: width",
     "AssertionError: height", "AttributeError: output_type",
     "AssertionError: output_type", "AssertionError: input_dir",
     "AttributeError: foregrounds_dir or backgrounds_dir",
     "AssertionError: foregrounds", "AssertionError: backgrounds",
     "AssertionError: background", "AssertionError: transparency",
     "AssertionError: foreground size"}

\* Every background of the catalog is at least as large as the output and
\* every foreground of the catalog has a transparent pixel.
ValidCatalogs ==
    /\ \A n \in 1..Len(backgrounds) :
          /\ backgrounds[n].size[1] >= self.width
          /\ backgrounds[n].size[2] >= self.height
    /\ \A a \in Assets(foregrounds_dict) : a.foreground_path.transparent

\* C6: on the directory layout the program prepares, a run with valid
\* inputs and count = N completes: it fails for an invalid input only, and
\* once the index is written there are N composites, N masks and N entries
\* of the index, one per sample, every add_mask having returned True.
C6_RunOnOwnLayoutCompletes ==
    (OwnLayout /\ ValidCatalogs) =>
        /\ pc = "failed" => error \in InputErrors
        /\ json_file # <<>> =>
              /\ \A n \in 0..(self.count - 1) :
                    CompositeFile(n) \in files /\ MaskFile(n) \in files
              /\ Cardinality(files \ {"mascaras.json", "dataset_info.json"})
                     = 2 * self.count
              /\ DOMAIN json_file[1].masks
                     = {CompositeFile(n) : n \in 0..(self.count - 1)}
              /\ Cardinality(DOMAIN json_file[1].masks) = self.count

\* C7: the samples are generated, saved and registered one after another
\* in index order; mascaras.json is written once, after all count samples;
\* a fatal condition ends the run: nothing more is generated, no index is
\* written, the files written stay.
C7_SamplesInOrderIndexLast ==
    [][/\ pc \notin {"args", "output_dir", "input_dir"} /\ "count" \in DOMAIN self =>
            /\ i \in 0..self.count
            /\ DOMAIN masks = {CompositeFile(n) : n \in 0..(i - 1)}
            /\ \A n \in 0..(i - 1) :
                  CompositeFile(n) \in files /\ MaskFile(n) \in files
            /\ \A n \in (i + 1)..self.count :
                  CompositeFile(n) \notin files /\ MaskFile(n) \notin files
            /\ CompositeFile(i) \in files =>
                  pc \in {"save_mask", "register", "failed"}
            /\ MaskFile(i) \in files => pc = "register"
            /\ Len(json_file) <= 1
            /\ "mascaras.json" \in files <=> json_file # <<>>
            /\ json_file # <<>> =>
                  /\ i = self.count
                  /\ pc \in {"create_info", "done", "quit"}
                  /\ error = "none"
                  /\ DOMAIN json_file[1].masks
                         = {CompositeFile(n) : n \in 0..(self.count - 1)}
       /\ files \subseteq files'
       /\ i' \in {i, i + 1}
       /\ pc = "failed" => UNCHANGED vars
       /\ pc' = "failed" =>
            /\ json_file' = <<>>
            /\ i' = i /\ masks' = masks
      ]_vars

\* C7's case: a run that wrote the files of an earlier sample and then
\* failed on a later one.
C7_Witness ==
    /\ pc = "failed"
    /\ i > 0
    /\ CompositeFile(0) \in files /\ MaskFile(0) \in files
    /\ json_file = <<>>

\* The background of the sample in hand is smaller than the output.
SmallBackground ==
    \/ sample.background_path.size[1] < self.width
    \/ sample.background_path.size[2] < self.height

\* C8 as stated: a background smaller than the output is found when the
\* list of backgrounds is built, before any sample is composited and
\* before any composite or mask is written.
C8_SmallBackgroundFoundAtValidation ==
    /\ pc \notin {"args", "output_dir", "input_dir", "failed", "quit"} =>
          \A n \in 1..Len(backgrounds) :
              /\ backgrounds[n].size[1] >= self.width
              /\ backgrounds[n].size[2] >= self.height
    /\ error = "AssertionError: background" => (i = 0 /\ files = {})

\* C8 amended: a background smaller than the output is fatal and is found
\* at use time, by the crop assertions of _compose_images for the sample
\* that picked it: that sample is not composited and neither its composite
\* nor its mask is written, while the files of earlier samples stay; the
\* list built during validation takes a background whatever its size.
C8_SmallBackgroundFoundAtUse ==
    [][/\ (pc = "compose" /\ SmallBackground) =>
            /\ pc' = "failed"
            /\ error' = "AssertionError: background"
            /\ files' = files
            /\ CompositeFile(i) \notin files' /\ MaskFile(i) \notin files'
            /\ masks' = masks
       /\ pc \in {"save_composite", "save_mask", "register"} =>
            ~SmallBackground
       /\ error' = "AssertionError: background" =>
            pc = "compose" /\ SmallBackground
       /\ (pc = "input_dir" /\ pc' = "loop") =>
            \E bl \in BgListings :
                backgrounds' = SelectSeq(bl, LAMBDA e :
                    e.is_file /\ e.suffix \in {".png", ".jpg", ".jpeg"})
      ]_vars

\* C8's case: the second sample picked a background too small, after the
\* files of the first were written.
C8_Witness ==
    /\ error = "AssertionError: background"
    /\ i = 1
    /\ files = {CompositeFile(0), MaskFile(0)}
    /\ \E n \in 1..Len(backgrounds) : backgrounds[n].size[1] < self.width

\* Every category of a registered mask is in the taxonomy, under its
\* super-category.
RegistryConsistent ==
    \A p \in DOMAIN masks :
        \A k \in DOMAIN masks[p].color_categories :
            LET item == masks[p].color_categories[k]
            IN /\ item.super_category \in DOMAIN super_categories
               /\ item.category \in super_categories[item.super_category]

\* The (super_category, category) pairs of an exported taxonomy.
ExportedPairs(d) ==
    UNION {{<<s, d[s][n]>> : n \in 1..Len(d[s])} : s \in DOMAIN d}

\* C10: after any add_mask and add_category calls every category of a
\* registered mask is in the taxonomy under its super-category; at the end
\* of a run the exported super_categories holds just the pairs of the
\* registered samples' color_categories, all of the foreground catalog.
C10_TaxonomyCoversRegisteredMasks ==
    /\ RegistryConsistent
    /\ json_file # <<>> =>
          /\ ExportedPairs(json_file[1].super_categories)
                 = UNION {ItemPairs(json_file[1].masks[p].color_categories) :
                             p \in DOMAIN json_file[1].masks}
          /\ ExportedPairs(json_file[1].super_categories)
                 \subseteq {<<a.super_category, a.category>> :
                               a \in Assets(foregrounds_dict)}
          /\ ExportedPairs(json_file[1].super_categories)
                 = PairsOf(super_categories)

\* C10's case: a caller's add_mask brought two pairs into the taxonomy.
C10_Witness ==
    /\ call.op = "add_mask"
    /\ ret = TRUE
    /\ Cardinality(ItemPairs(call.color_categories)) = 2
    /\ Cardinality(DOMAIN masks) = 2

\* C10's second case: a run wrote an index with two pairs.
C10_WitnessRun ==
    /\ json_file # <<>>
    /\ Cardinality(ExportedPairs(json_file[1].super_categories)) = 2
    /\ Cardinality(DOMAIN json_file[1].masks) = 2

\* The run was started with a count, a width and a height that pass the
\* assertions of lines 121-127, and _validate_and_process_args has acted.
SizesValidated ==
    /\ call.op = "main"
    /\ call.args.count > 0
    /\ call.args.width >= MinSize
    /\ call.args.height >= MinSize

\* The two ways the output_type lines (131-136) end a run.
OutputTypeErrors ==
    {"AttributeError: output_type", "AssertionError: output_type"}

\* Validation accepted the output type and left t in self.output_type.
OutputTypeAccepted(t) ==
    /\ error \notin OutputTypeErrors
    /\ "output_type" \in DOMAIN self
    /\ self.output_type = t
    /\ self.output_type \in allowed_output_types

\* Validation rejected the output type before any sample was generated.
OutputTypeRejected ==
    /\ pc = "failed"
    /\ error \in OutputTypeErrors
    /\ i = 0 /\ files = {} /\ json_file = <<>>

\* C11: given count > 0, width >= 64 and height >= 64, validation sets the
\* format to '.jpg' when no output type is given; accepts an output type
\* that names an allowed format with or without its leading dot and sets
\* self.output_type to the dotted form; rejects any other output type
\* before any generation starts.
C11_OutputTypeValidation ==
    SizesValidated =>
        LET output_type == call.args.output_type
        IN IF output_type = ArgNone
           THEN OutputTypeAccepted(".jpg")
           ELSE IF ("." \o output_type.name) \in allowed_output_types
           THEN OutputTypeAccepted("." \o output_type.name)
           ELSE OutputTypeRejected

============================================================================
